---------------------------- MODULE Spec2Model ----------------------------
(* documentation-bleno: lib/parse.js, the comment-to-record flattener.     *)
(*                                                                         *)
(* parseJSDoc(comment, loc, context) hands the comment to doctrine, gives  *)
(* up (null) when no tag is titled 'bleno', and otherwise walks the tags   *)
(* once, in order, mutating doctrine's own result object through the       *)
(* `flatteners` dispatch table.  JavaScript objects are modelled as        *)
(* functions whose DOMAIN is the set of keys present, so "key absent" and  *)
(* "key present with null or ''" are different values.                     *)
EXTENDS Integers, Sequences, FiniteSets, TLC

VARIABLES
  flatteners,  \* own keys of the dispatch table: title -> flattener
  pc,          \* "idle" | "walk" | "done": position inside parseJSDoc
  comment,     \* argument: the comment, as doctrine tokenizes it
  loc,         \* argument: opaque location
  context,     \* argument: opaque code context
  result,      \* doctrine's result object, mutated in place
  i,           \* forEach index of the next tag to visit
  returned,    \* what the call returned
  prev         \* an earlier finished call (arguments and return value)

vars == <<flatteners, pc, comment, loc, context, result, i, returned, prev>>

-----------------------------------------------------------------------------
(* Bounds *)

\* longest tag sequence of a comment
MaxTags == 3
\* longest tag sequence when two calls are compared
MaxTagsTwice == 2

-----------------------------------------------------------------------------
(* JavaScript values *)

\* JS null, as doctrine stores it in tag.description
Null == "<null>"
\* reading a key that is not there
Undefined == "<undefined>"

Get(o, k) == IF k \in DOMAIN o THEN o[k] ELSE Undefined

\* o[k] = v
Put(o, k, v) == [x \in (DOMAIN o) \cup {k} |-> IF x = k THEN v ELSE o[x]]

\* truthiness of a string-or-null value: if (v)
Truthy(v) == v \notin {Null, Undefined, ""}

\* an object with no keys
EmptyObject == [x \in {} |-> Null]

-----------------------------------------------------------------------------
(* The tag grammar parser (doctrine), seen from parse.js *)

\* messages doctrine attaches to a malformed tag
ParserMessages == {"e1", "e2"}

\* tag tokens before doctrine numbers their lines.  description is always a
\* key (null when there is no text); name, type and errors are keys only
\* when doctrine sets them; errors, when set, is a non-empty array.
MarkerTokens ==
  { [title |-> "bleno", description |-> d] : d \in {Null, "a", "b"} }
    \cup { [title |-> "bleno", description |-> "a", errors |-> <<"e1">>] }

PropertyTokens ==
  { [title |-> "property", name |-> "p", description |-> d] : d \in {Null, "a"} }
    \cup { [title |-> "property", name |-> "p", description |-> d, type |-> "T"] :
             d \in {Null, "a"} }
    \cup { [title |-> "property", name |-> "q", description |-> Null] }
    \cup { [title |-> "property", description |-> Null, type |-> "T",
            errors |-> <<"e1", "e2">>] }

\* titles with no entry anywhere in the dispatch table
UnknownTokens ==
  { [title |-> "param", description |-> "a"],
    [title |-> "param", description |-> Null, errors |-> <<"e2">>] }

\* titles doctrine accepts that name a member of Object.prototype
InheritedTokens ==
  { [title |-> "constructor", description |-> Null],
    [title |-> "constructor", description |-> Null, errors |-> <<"e1">>] }

Tokens == MarkerTokens \cup PropertyTokens \cup UnknownTokens \cup InheritedTokens

TokensTwice ==
  { [title |-> "bleno", description |-> "a"],
    [title |-> "property", name |-> "p", description |-> "a", type |-> "T"],
    [title |-> "param", description |-> "a"],
    [title |-> "constructor", description |-> Null] }

\* leading free text of a comment: none, or one line
Descriptions == {"", "d"}

\* the comment doctrine tokenizes into free text d and tag tokens t
Comment(d, t) == [description |-> d, tags |-> t]

\* (loc, context) pairs a caller passes
Metas == { <<"loc1", "ctx1">>, <<"loc2", "ctx2">> }

\* doctrine.parse(comment, {unwrap, sloppy, recoverable, lineNumbers}):
\* {description, tags}, every tag numbered with its 0-based line; the free
\* text, when there is any, takes the first line and each tag one line.
DoctrineParse(c) ==
  LET first == IF c.description = "" THEN 0 ELSE 1
  IN  [description |-> c.description,
       tags |-> [k \in 1..Len(c.tags) |->
                   Put(c.tags[k], "lineNumber", first + k - 1)]]

\* parseMarkdown(text): the markdown rendering of text, never text itself
parseMarkdown(text) == "md(" \o text \o ")"

-----------------------------------------------------------------------------
(* The dispatch table *)

\* var flatteners = { 'bleno': ..., 'property': ... }
FlattenersInit == [bleno |-> "bleno", property |-> "property"]

\* members every object literal inherits from Object.prototype whose names
\* doctrine can scan as a title (ASCII letters and digits only)
ObjectPrototypeKeys ==
  {"constructor", "toString", "toLocaleString", "valueOf",
   "hasOwnProperty", "isPrototypeOf", "propertyIsEnumerable"}

\* flatteners[title]: own keys first, then the prototype chain
Lookup(table, title) ==
  IF title \in DOMAIN table THEN table[title]
  ELSE IF title \in ObjectPrototypeKeys THEN "Object.prototype." \o title
  ELSE Undefined

\* variant: the name is taken from tag.name, as for a @name tag
FlattenBlenoFromName(r, tag) == Put(r, "name", Get(tag, "name"))

\* variant: the name is kept once set (first occurrence wins)
FlattenBlenoOnce(r, tag) ==
  IF "name" \in DOMAIN r THEN r ELSE Put(r, "name", tag.description)

\* 'bleno': function (result, tag) { result.name = tag.description }
FlattenBleno(r, tag) == Put(r, "name", tag.description)

\* variant: description copied unconditionally
PropertyOfEager(tag) ==
  LET p0 == [name |-> Get(tag, "name"), lineNumber |-> tag.lineNumber,
             description |-> tag.description]
  IN  IF Truthy(Get(tag, "type")) THEN Put(p0, "type", tag.type) ELSE p0

\* the property object built from one tag
PropertyOf(tag) ==
  LET p0 == [name |-> Get(tag, "name"), lineNumber |-> tag.lineNumber]
      p1 == IF Truthy(Get(tag, "description"))
              THEN Put(p0, "description", parseMarkdown(tag.description))
              ELSE p0
  IN  IF Truthy(Get(tag, "type")) THEN Put(p1, "type", tag.type) ELSE p1

\* variant: unshift instead of push
FlattenPropertyUnshift(r, tag) ==
  LET r0 == IF "properties" \in DOMAIN r THEN r ELSE Put(r, "properties", <<>>)
  IN  Put(r0, "properties", <<PropertyOf(tag)>> \o r0.properties)

\* 'property': function (result, tag) { ... result.properties.push(property) }
FlattenProperty(r, tag) ==
  LET r0 == IF "properties" \in DOMAIN r THEN r ELSE Put(r, "properties", <<>>)
  IN  Put(r0, "properties", Append(r0.properties, PropertyOf(tag)))

\* flatteners[tag.title](result, tag, tag.title) for the function fn found.
\* The inherited members (Object, toString, valueOf, hasOwnProperty, ...)
\* return a value and leave their arguments alone.
Apply(fn, r, tag) ==
  CASE fn = "bleno"    -> FlattenBleno(r, tag)
    [] fn = "property" -> FlattenProperty(r, tag)
    [] OTHER           -> r

\* variant: the entries carry the tag's line, as the unknown-tag entry does
ParserErrorEntriesWithLine(tag) ==
  [j \in 1..Len(tag.errors) |->
     [message |-> tag.errors[j], commentLineNumber |-> tag.lineNumber]]

\* the error entries one erroneous tag contributes: {message: tag.errors[j]}
ParserErrorEntries(tag) ==
  [j \in 1..Len(tag.errors) |-> [message |-> tag.errors[j]]]

\* the entry for a title with no flattener
UnknownTagEntry(tag) ==
  [message |-> "unknown tag @" \o tag.title,
   commentLineNumber |-> tag.lineNumber]

\* variant: `if` ... `if` instead of `if` ... `else if`, so a tag with
\* parser errors is dispatched as well
VisitTagFallThrough(table, r, tag) ==
  LET r0 == IF "errors" \in DOMAIN tag
              THEN Put(r, "errors", r.errors \o ParserErrorEntries(tag))
              ELSE r
  IN  IF Lookup(table, tag.title) # Undefined
        THEN Apply(Lookup(table, tag.title), r0, tag)
        ELSE Put(r0, "errors", Append(r0.errors, UnknownTagEntry(tag)))

\* the body of the forEach callback, lines 230-241
VisitTag(table, r, tag) ==
  IF "errors" \in DOMAIN tag
    THEN Put(r, "errors", r.errors \o ParserErrorEntries(tag))
  ELSE IF Lookup(table, tag.title) # Undefined
    THEN Apply(Lookup(table, tag.title), r, tag)
  ELSE Put(r, "errors", Append(r.errors, UnknownTagEntry(tag)))

\* variant: a marker tag that carries parser errors does not count
NoMarkerSkippingErrors(tags) ==
  \A k \in 1..Len(tags) : tags[k].title # "bleno" \/ "errors" \in DOMAIN tags[k]

\* _.findIndex(result.tags, item => item.title === 'bleno') === -1
NoMarker(tags) == \A k \in 1..Len(tags) : tags[k].title # "bleno"

\* lines 221-227: loc, context, errors, and the rendered description
Decorate(parsed, l, k) ==
  LET r0 == Put(Put(Put(parsed, "loc", l), "context", k), "errors", <<>>)
  IN  IF Truthy(r0.description)
        THEN Put(r0, "description", parseMarkdown(r0.description))
        ELSE r0

-----------------------------------------------------------------------------
(* parseJSDoc as a state machine *)

NullValue == [kind |-> "null"]
RecordValue(r) == [kind |-> "record", value |-> r]
NoCall == [kind |-> "none"]

Init ==
  /\ flatteners = FlattenersInit
  /\ pc = "idle"
  /\ comment = [description |-> "", tags |-> <<>>]
  /\ loc = "loc1"
  /\ context = "ctx1"
  /\ result = EmptyObject
  /\ i = 1
  /\ returned = NoCall
  /\ prev = NoCall

\* parseJSDoc(c, l, k) up to the forEach: lines 205-227
Call(c, l, k) ==
  /\ pc = "idle"
  /\ comment' = c
  /\ loc' = l
  /\ context' = k
  /\ i' = 1
  /\ IF NoMarker(DoctrineParse(c).tags)
       THEN /\ pc' = "done"
            /\ returned' = NullValue
            /\ result' = DoctrineParse(c)
       ELSE /\ pc' = "walk"
            /\ returned' = NoCall
            /\ result' = Decorate(DoctrineParse(c), l, k)
  /\ UNCHANGED <<flatteners, prev>>

\* variant: a title found unknown is registered as a no-op for later calls
WalkTagCaching ==
  /\ pc = "walk"
  /\ i <= Len(result.tags)
  /\ result' = VisitTag(flatteners, result, result.tags[i])
  /\ i' = i + 1
  /\ flatteners' =
       IF /\ "errors" \notin DOMAIN result.tags[i]
          /\ Lookup(flatteners, result.tags[i].title) = Undefined
         THEN Put(flatteners, result.tags[i].title, "todo")
         ELSE flatteners
  /\ UNCHANGED <<pc, comment, loc, context, returned, prev>>

\* one iteration of result.tags.forEach
WalkTag ==
  /\ pc = "walk"
  /\ i <= Len(result.tags)
  /\ result' = VisitTag(flatteners, result, result.tags[i])
  /\ i' = i + 1
  /\ UNCHANGED <<flatteners, pc, comment, loc, context, returned, prev>>

\* return result
Return ==
  /\ pc = "walk"
  /\ i > Len(result.tags)
  /\ pc' = "done"
  /\ returned' = RecordValue(result)
  /\ UNCHANGED <<flatteners, comment, loc, context, result, i, prev>>

\* the caller is done with the value; the module is ready for the next call
Finish ==
  /\ pc = "done"
  /\ pc' = "idle"
  /\ comment' = [description |-> "", tags |-> <<>>]
  /\ loc' = "loc1"
  /\ context' = "ctx1"
  /\ result' = EmptyObject
  /\ i' = 1
  /\ returned' = NoCall
  /\ UNCHANGED <<flatteners, prev>>

\* the same, the caller keeping the arguments and the value of this call
\* to compare a later call with
FinishRemember ==
  /\ pc = "done"
  /\ prev = NoCall
  /\ prev' = [kind |-> "call", comment |-> comment, loc |-> loc,
              context |-> context, returned |-> returned]
  /\ pc' = "idle"
  /\ comment' = [description |-> "", tags |-> <<>>]
  /\ loc' = "loc1"
  /\ context' = "ctx1"
  /\ result' = EmptyObject
  /\ i' = 1
  /\ returned' = NoCall
  /\ UNCHANGED flatteners

\* a caller parses any comment, once the previous call is over
CallAny ==
  /\ pc = "idle"
  /\ \E d \in Descriptions, n \in 0..MaxTags, m \in Metas :
       \E t \in [1..n -> Tokens] : Call(Comment(d, t), m[1], m[2])

\* the same, over the comments used when two calls are compared
CallAnyTwice ==
  /\ pc = "idle"
  /\ \E n \in 0..MaxTagsTwice, m \in Metas :
       \E t \in [1..n -> TokensTwice] : Call(Comment("", t), m[1], m[2])

Next ==
  \/ CallAny
  \/ WalkTag
  \/ Return
  \/ Finish

Spec == Init /\ [][Next]_vars

NextTwice ==
  \/ CallAnyTwice
  \/ WalkTag
  \/ Return
  \/ Finish
  \/ FinishRemember

SpecTwice == Init /\ [][NextTwice]_vars

-----------------------------------------------------------------------------
(* What the specification says, stated over the tag tokens alone *)

\* the tag tokens of the current call, as doctrine produced them
ParsedTags == DoctrineParse(comment).tags

IsMarker(t) == t.title = "bleno"
IsProperty(t) == t.title = "property"
Erroneous(t) == "errors" \in DOMAIN t
HadDescription(t) == t.description # Null
HadType(t) == "type" \in DOMAIN t

\* the call returned a record (not null)
ReturnedRecord == pc = "done" /\ returned.kind = "record"

Has(o, k) == k \in DOMAIN o

\* key k is the same in two objects: absent in both or equal in both
SameKey(o1, o2, k) ==
  /\ Has(o1, k) <=> Has(o2, k)
  /\ Has(o1, k) => o1[k] = o2[k]

\* a property entry built from tag token t, as the data model describes it
EntryBuiltFrom(e, t) ==
  /\ DOMAIN e \subseteq {"name", "lineNumber", "description", "type"}
  /\ Has(e, "name") /\ e.name = Get(t, "name")
  /\ Has(e, "lineNumber") /\ e.lineNumber = t.lineNumber
  /\ Has(e, "description") <=> HadDescription(t)
  /\ Has(e, "type") <=> HadType(t)
  /\ Has(e, "type") => e.type = t.type

\* properties holds one entry per tag of ts, in the order of ts
PropertiesAre(r, ts) ==
  /\ Has(r, "properties")
  /\ Len(r.properties) = Len(ts)
  /\ \A k \in 1..Len(ts) : EntryBuiltFrom(r.properties[k], ts[k])

-----------------------------------------------------------------------------
(* C1 *)

\* C1: parseJSDoc returns null exactly when no tag of the comment is titled
\* 'bleno', whatever the other tags are; with a marker tag, even one that
\* carries parser errors, it returns a record.
C1_NullIffNoMarker ==
  pc = "done" =>
    /\ returned.kind \in {"null", "record"}
    /\ returned.kind = "null" <=> ~ \E k \in 1..Len(ParsedTags) : IsMarker(ParsedTags[k])
    /\ returned.kind = "null" => DOMAIN returned = {"kind"}

\* a comment of three tags (a property tag, an unknown tag, a tag with parser
\* errors) and no marker was answered with null
C1_Witness ==
  /\ pc = "done"
  /\ returned.kind = "null"
  /\ Len(ParsedTags) = 3
  /\ \E k \in 1..3 : IsProperty(ParsedTags[k]) /\ ~Erroneous(ParsedTags[k])
  /\ \E k \in 1..3 : ParsedTags[k].title = "param" /\ ~Erroneous(ParsedTags[k])
  /\ \E k \in 1..3 : Erroneous(ParsedTags[k])

-----------------------------------------------------------------------------
(* C2 *)

\* C2 as the specification states it: with N >= 1 property tags in a comment
\* that has the marker, properties has exactly N entries, the i-th built from
\* the i-th property tag.
C2_Original ==
  LET ts == SelectSeq(ParsedTags, IsProperty)
  IN  (ReturnedRecord /\ Len(ts) >= 1) => PropertiesAre(returned.value, ts)

\* C2, amended: with N >= 1 property tags that carry no parser errors in a
\* comment that has the marker, properties has exactly N entries, the i-th
\* built from the i-th such tag in source order: name and lineNumber copied,
\* description present iff the tag had one, type present iff the tag had one.
\* (A property tag with parser errors adds no entry.)
C2_PropertiesInOrder ==
  LET ErrorFreeProperty(t) == IsProperty(t) /\ ~Erroneous(t)
      ts == SelectSeq(ParsedTags, ErrorFreeProperty)
  IN  (ReturnedRecord /\ Len(ts) >= 1) => PropertiesAre(returned.value, ts)

\* a record with two entries: the first from a tag with a type and no
\* description, the second from a tag with a description and no type
C2_Witness ==
  /\ ReturnedRecord
  /\ Has(returned.value, "properties")
  /\ Len(returned.value.properties) = 2
  /\ DOMAIN returned.value.properties[1] = {"name", "lineNumber", "type"}
  /\ DOMAIN returned.value.properties[2] = {"name", "lineNumber", "description"}

-----------------------------------------------------------------------------
(* C3, C4, C5: what one visit of the walk adds *)

\* the walk is about to visit a tag: result.tags[i]
Visiting == pc = "walk" /\ i <= Len(result.tags)

\* the tag most recently visited by the walk
LastVisited == result.tags[i - 1]

\* C3: visiting an error-free tag whose title is neither 'bleno' nor
\* 'property' appends exactly one entry, {message: "unknown tag @" + title,
\* commentLineNumber: the tag's line}, and leaves name and properties as
\* they were.
C3_UnknownTagEntry ==
  [][Visiting =>
       LET t == result.tags[i]
       IN  (~Erroneous(t) /\ t.title \notin {"bleno", "property"}) =>
         /\ result'.errors =
              Append(result.errors,
                     [message |-> "unknown tag @" \o t.title,
                      commentLineNumber |-> t.lineNumber])
         /\ SameKey(result', result, "name")
         /\ SameKey(result', result, "properties")]_vars

\* C4: visiting a tag that carries parser errors appends one entry per
\* message, carrying that message, in the order of the messages, after the
\* entries already there, and changes nothing else of the record: no name,
\* no properties, no "unknown tag" entry, whatever the tag's title.
C4_ErroneousTagOnlyErrors ==
  [][Visiting =>
       LET t == result.tags[i]
       IN  Erroneous(t) =>
         /\ DOMAIN result' = DOMAIN result
         /\ \A key \in DOMAIN result \ {"errors"} : result'[key] = result[key]
         /\ Len(result'.errors) = Len(result.errors) + Len(t.errors)
         /\ SubSeq(result'.errors, 1, Len(result.errors)) = result.errors
         /\ \A j \in 1..Len(t.errors) :
              result'.errors[Len(result.errors) + j].message = t.errors[j]]_vars

\* the walk has just visited an erroneous property tag with two messages:
\* both are in errors and the record has no properties
C4_Witness ==
  /\ pc = "walk"
  /\ i > 1
  /\ Erroneous(LastVisited)
  /\ IsProperty(LastVisited)
  /\ Len(LastVisited.errors) = 2
  /\ Len(result.errors) >= 2
  /\ ~Has(result, "properties")

\* the entries of errors that carry a parser message
ParserEntries(r) ==
  {k \in 1..Len(r.errors) : r.errors[k].message \in ParserMessages}

\* C5 as the specification states it: every entry for a parser message
\* carries the line number of its tag as commentLineNumber.
C5_Original ==
  pc \in {"walk", "done"} /\ Has(result, "errors") =>
    \A k \in ParserEntries(result) :
      /\ Has(result.errors[k], "commentLineNumber")
      /\ \E n \in 1..Len(result.tags) :
           /\ Erroneous(result.tags[n])
           /\ result.errors[k].commentLineNumber = result.tags[n].lineNumber

\* C5, amended: an entry for a parser message holds the message and nothing
\* else (no commentLineNumber); only the entries for unknown tags carry
\* commentLineNumber, the line number of their tag.
C5_ParserEntriesHaveNoLine ==
  pc \in {"walk", "done"} /\ Has(result, "errors") =>
    \A k \in 1..Len(result.errors) :
      IF k \in ParserEntries(result)
        THEN DOMAIN result.errors[k] = {"message"}
        ELSE /\ DOMAIN result.errors[k] = {"message", "commentLineNumber"}
             /\ \E n \in 1..Len(result.tags) :
                  /\ ~Erroneous(result.tags[n])
                  /\ result.errors[k].message = "unknown tag @" \o result.tags[n].title
                  /\ result.errors[k].commentLineNumber = result.tags[n].lineNumber

\* a returned record whose errors hold an entry of each kind
C5_Witness ==
  /\ ReturnedRecord
  /\ ParserEntries(returned.value) # {}
  /\ \E k \in 1..Len(returned.value.errors) :
       Has(returned.value.errors[k], "commentLineNumber")

-----------------------------------------------------------------------------
(* C6 *)

\* C6 as the specification states it: with exactly one marker tag and no
\* property tag, name is that marker tag's description and the record has
\* no properties key, whatever the other tags.
C6_Original ==
  LET ms == SelectSeq(ParsedTags, IsMarker)
      ps == SelectSeq(ParsedTags, IsProperty)
  IN  (ReturnedRecord /\ Len(ms) = 1 /\ Len(ps) = 0) =>
        /\ Has(returned.value, "name")
        /\ returned.value.name = ms[1].description
        /\ ~Has(returned.value, "properties")

\* C6, amended: with exactly one marker tag, itself free of parser errors,
\* and no property tag, name is that marker tag's description and the record
\* has no properties key, whatever the other (unknown or erroneous) tags.
C6_NameAndNoProperties ==
  LET ms == SelectSeq(ParsedTags, IsMarker)
      ps == SelectSeq(ParsedTags, IsProperty)
  IN  (ReturnedRecord /\ Len(ms) = 1 /\ ~Erroneous(ms[1]) /\ Len(ps) = 0) =>
        /\ Has(returned.value, "name")
        /\ returned.value.name = ms[1].description
        /\ ~Has(returned.value, "properties")

\* a record named "b" from a comment whose other two tags are an unknown tag
\* and a tag with parser errors
C6_Witness ==
  /\ ReturnedRecord
  /\ Len(SelectSeq(ParsedTags, IsMarker)) = 1
  /\ Len(SelectSeq(ParsedTags, IsProperty)) = 0
  /\ Len(ParsedTags) = 3
  /\ \E k \in 1..3 : Erroneous(ParsedTags[k]) /\ ~IsMarker(ParsedTags[k])
  /\ \E k \in 1..3 : ParsedTags[k].title = "param" /\ ~Erroneous(ParsedTags[k])
  /\ Has(returned.value, "name")
  /\ returned.value.name = "b"
  /\ ~Has(returned.value, "properties")

-----------------------------------------------------------------------------
(* C7 *)

\* an optional field of a property entry is absent or holds a real value
PropertyFieldsReal(e) ==
  /\ Has(e, "description") => Truthy(e.description)
  /\ Has(e, "type") => Truthy(e.type)

\* properties is absent or a non-empty sequence of such entries
PropertiesReal(r) ==
  Has(r, "properties") =>
    /\ Len(r.properties) > 0
    /\ \A k \in 1..Len(r.properties) : PropertyFieldsReal(r.properties[k])

\* C7 as the specification states it: in a returned record name,
\* description, properties and each property's description and type are
\* absent or hold a real value, never "", null or an empty sequence.
C7_Original ==
  ReturnedRecord =>
    /\ Has(returned.value, "name") => Truthy(returned.value.name)
    /\ Has(returned.value, "description") => Truthy(returned.value.description)
    /\ PropertiesReal(returned.value)

\* C7, amended: properties and each property's description and type are
\* absent or hold a real value.  description is always a key: the rendering
\* of the leading free text, or the parser's empty string when there is
\* none.  name is a key exactly when some marker tag free of parser errors
\* was flattened, and then holds the description of the last such tag, which
\* is null when that tag has no description text.
C7_OptionalFields ==
  LET r == returned.value
      ErrorFreeMarker(t) == IsMarker(t) /\ ~Erroneous(t)
      ms == SelectSeq(ParsedTags, ErrorFreeMarker)
  IN  ReturnedRecord =>
        /\ PropertiesReal(r)
        /\ Has(r, "description")
        /\ comment.description = "" => r.description = ""
        /\ comment.description # "" =>
             r.description = parseMarkdown(comment.description)
        /\ Has(r, "name") <=> Len(ms) > 0
        /\ Has(r, "name") => r.name = ms[Len(ms)].description

\* a record from a comment with no free text and a marker tag with no
\* description: description is "", name is null, and properties holds an
\* entry without description
C7_Witness ==
  /\ ReturnedRecord
  /\ returned.value.description = ""
  /\ Has(returned.value, "name")
  /\ returned.value.name = Null
  /\ Has(returned.value, "properties")
  /\ ~Has(returned.value.properties[1], "description")

-----------------------------------------------------------------------------
(* C8 *)

\* C8: no call changes the dispatch table, and a call with the same comment,
\* loc and context as an earlier call, whatever calls came in between,
\* returns a structurally equal value.
C8_Deterministic ==
  /\ DOMAIN flatteners = {"bleno", "property"}
  /\ flatteners["bleno"] = "bleno"
  /\ flatteners["property"] = "property"
  /\ (pc = "done" /\ prev.kind = "call"
        /\ prev.comment = comment /\ prev.loc = loc /\ prev.context = context)
       => prev.returned = returned

\* a later call with the arguments of a remembered one returned a record
\* with a name and an unknown-tag entry
C8_Witness ==
  /\ pc = "done"
  /\ prev.kind = "call"
  /\ prev.comment = comment /\ prev.loc = loc /\ prev.context = context
  /\ returned.kind = "record"
  /\ Len(returned.value.errors) > 0
  /\ Has(returned.value, "name")

-----------------------------------------------------------------------------
(* C9 *)

\* C9: every visit of a marker tag free of parser errors sets name to that
\* tag's description and appends nothing to errors; so with two or more
\* marker tags the returned name is the description of the last marker tag
\* that was flattened.
C9_LastMarkerWins ==
  /\ [][Visiting =>
          LET t == result.tags[i]
          IN  (IsMarker(t) /\ ~Erroneous(t)) =>
                /\ Has(result', "name")
                /\ result'.name = t.description
                /\ result'.errors = result.errors]_vars
  /\ [](LET ErrorFreeMarker(t) == IsMarker(t) /\ ~Erroneous(t)
            ms == SelectSeq(ParsedTags, ErrorFreeMarker)
        IN  (ReturnedRecord /\ Len(ms) >= 2) =>
              /\ Has(returned.value, "name")
              /\ returned.value.name = ms[Len(ms)].description)

\* a record named "b" from a comment whose marker tags say "a", then "b",
\* with no entry in errors
C9_Witness ==
  /\ ReturnedRecord
  /\ Len(ParsedTags) >= 2
  /\ IsMarker(ParsedTags[1]) /\ ParsedTags[1].description = "a"
  /\ IsMarker(ParsedTags[2]) /\ ParsedTags[2].description = "b"
  /\ ~Erroneous(ParsedTags[1]) /\ ~Erroneous(ParsedTags[2])
  /\ returned.value.name = "b"
  /\ returned.value.errors = <<>>

-----------------------------------------------------------------------------
(* C10 *)

\* the messages the specification expects from one tag: its parser messages,
\* or "unknown tag @title" when it is error-free and its title is neither
\* the marker title nor the property title
ExpectedMessagesOf(t) ==
  IF Erroneous(t) THEN t.errors
  ELSE IF t.title \notin {"bleno", "property"} THEN <<"unknown tag @" \o t.title>>
  ELSE <<>>

RECURSIVE ExpectedMessages(_, _)
\* the expected messages of the first n tags of ts, in order
ExpectedMessages(ts, n) ==
  IF n = 0 THEN <<>>
  ELSE ExpectedMessages(ts, n - 1) \o ExpectedMessagesOf(ts[n])

\* C10: errors starts empty and only grows during the walk; after the first
\* n tags it holds, in order, one entry per parser message and one entry per
\* unrecognized tag among them, and so does the returned record for all the
\* tags.
C10_ErrorsInEncounterOrder ==
  (pc \in {"walk", "done"} /\ Has(result, "errors")) =>
    /\ Len(result.errors) = Len(ExpectedMessages(result.tags, i - 1))
    /\ \A k \in 1..Len(result.errors) :
         result.errors[k].message = ExpectedMessages(result.tags, i - 1)[k]

=============================================================================
